---- MODULE Spec2Model ----
(***************************************************************************)
(* A model of hustle/__init__.py: the table registry (Table.create,        *)
(* Table.from_tag, Table.base_tag), insert, blob resolution (_get_blobs),  *)
(* select and the built-in aggregations, over a DDFS tag store.            *)
(*                                                                         *)
(* Python values: an optional value is a sequence of length 0 (None) or 1  *)
(* (<<x>>); strings are TLA+ strings; lists and tuples are sequences.      *)
(***************************************************************************)
EXTENDS Integers, Sequences, FiniteSets, TLC

VARIABLES
    store,      \* DDFS: tag -> [attrs: key -> string, blobs: sequence of blobs]
    pc,         \* per client process: its position in the call it runs
    loc,        \* per client process: arguments and local variables of the call
    ret,        \* per client process: the value the call returned (optional)
    calls,      \* per client process: the kinds of DDFS calls the call has made
    snap,       \* per client process: the store as it was when the call began
    jobs,       \* the jobs submitted to the execution engine
    acc,        \* aggregation: per worker, its accumulator (optional)
    vals,       \* aggregation: the raw values not folded yet
    agg,        \* aggregation: the aggregation in use
    applied,    \* aggregation: the values accumulate has been given, in order
    tagIn,      \* base_tag: the arguments drawn
    tagOut      \* base_tag: the key returned (optional)

vars == <<store, pc, loc, ret, calls, snap, jobs, acc, vals, agg, applied, tagIn, tagOut>>

storeVars == <<store, pc, loc, ret, calls, snap, jobs>>
aggVars == <<acc, vals, agg, applied>>
tagVars == <<tagIn, tagOut>>

-----------------------------------------------------------------------------
(* Python values *)

None == <<>>

Some(x) == <<x>>

\* truth value of an optional string: None and '' are false
TruthyStr(v) == v # None /\ v[1] # ""

\* truth value of an optional list: None and [] are false
TruthyList(v) == v # None /\ Len(v[1]) > 0

IsPrefix(p, s) == Len(p) <= Len(s) /\ SubSeq(s, 1, Len(p)) = p

-----------------------------------------------------------------------------
(* ujson.dumps / ujson.loads on the two persisted values *)

Quote(s) == "\"" \o s \o "\""

RECURSIVE JoinQuoted(_)
JoinQuoted(fs) ==
    IF Len(fs) = 0 THEN ""
    ELSE IF Len(fs) = 1 THEN Quote(fs[1])
    ELSE Quote(fs[1]) \o "," \o JoinQuoted(Tail(fs))

\* ujson.dumps(fields): a JSON array of strings, no whitespace
dumps_fields(fs) == "[" \o JoinQuoted(fs) \o "]"

\* ujson.dumps(partition): null or a JSON string
dumps_partition(p) == IF p = None THEN "null" ELSE Quote(p[1])

\* a from_tag that takes the persisted text as the partition, undecoded
loads_partition_raw(s) == IF s = "null" THEN None ELSE Some(s)

\* ujson.loads of a JSON string or null
loads_partition(s) == IF s = "null" THEN None ELSE Some(SubSeq(s, 2, Len(s) - 1))

\* the items of a comma separated text of quoted strings, from position i,
\* the current item starting at position b
RECURSIVE SplitQuoted(_, _, _)
SplitQuoted(s, b, i) ==
    IF i > Len(s) THEN
        IF b > Len(s) THEN <<>> ELSE <<SubSeq(s, b + 1, Len(s) - 1)>>
    ELSE IF SubSeq(s, i, i) = "," THEN
        <<SubSeq(s, b + 1, i - 2)>> \o SplitQuoted(s, i + 1, i + 1)
    ELSE SplitQuoted(s, b, i + 1)

\* ujson.loads of a JSON array of strings
loads_fields(s) == SplitQuoted(SubSeq(s, 2, Len(s) - 1), 1, 1)

-----------------------------------------------------------------------------
(* Table.base_tag and insert's part_tag *)

\* a base_tag that appends the partition before the extension
base_tag_swapped(name, partition, extension) ==
    LET r0 == "hustle:" \o name
        r1 == IF TruthyStr(partition) THEN r0 \o ":" \o partition[1] ELSE r0
    IN  IF extension # "" THEN r1 \o ":" \o extension ELSE r1

base_tag(name, partition, extension) ==
    LET r0 == "hustle:" \o name
        r1 == IF extension # "" THEN r0 \o ":" \o extension ELSE r0
    IN  IF TruthyStr(partition) THEN r1 \o ":" \o partition[1] ELSE r1

\* a part_tag that drops the partition value
part_tag_flat(name, partition) == "hustle:" \o name

part_tag(name, partition) ==
    LET rval == "hustle:" \o name
    IN  IF TruthyStr(partition) THEN rval \o ":" \o partition[1] ELSE rval

-----------------------------------------------------------------------------
(* The DDFS tag store, as this module calls it *)

NoTag == [attrs |-> <<>>, blobs |-> <<>>]

ddfs_exists(s, tag) == tag \in DOMAIN s

ddfs_entry(s, tag) == IF tag \in DOMAIN s THEN s[tag] ELSE NoTag

\* setattr creates the tag when it is new and replaces one attribute
ddfs_setattr(s, tag, key, value) ==
    LET e == ddfs_entry(s, tag)
        a == [k \in DOMAIN e.attrs \cup {key} |->
                 IF k = key THEN value ELSE e.attrs[k]]
    IN  [t \in DOMAIN s \cup {tag} |->
            IF t = tag THEN [attrs |-> a, blobs |-> e.blobs] ELSE s[t]]

ddfs_hasattr(s, tag, key) == tag \in DOMAIN s /\ key \in DOMAIN s[tag].attrs

ddfs_getattr(s, tag, key) == s[tag].attrs[key]

\* push creates the tag when it is new and appends the blobs
ddfs_push(s, tag, files) ==
    LET e == ddfs_entry(s, tag)
    IN  [t \in DOMAIN s \cup {tag} |->
            IF t = tag THEN [attrs |-> e.attrs, blobs |-> e.blobs \o files]
            ELSE s[t]]

ddfs_list(s, prefix) == {t \in DOMAIN s : IsPrefix(prefix, t)}

ddfs_blobs(s, tag) == ddfs_entry(s, tag).blobs

EmptyStore == <<>>

-----------------------------------------------------------------------------
(* Tables *)

\* Table.__init__: a table with no materialized blob set
Table(name, fields, partition) ==
    [name |-> name, fields |-> fields, partition |-> partition, blobs |-> None]

Names == {"t", "tt"}

Schemas ==
    { [fields |-> <<"+$k", "@4v">>, partition |-> None],
      [fields |-> <<"+$date", "v">>, partition |-> Some("date")],
      [fields |-> <<"+$day">>, partition |-> Some("day")] }

Clients == {"A", "B", "R"}

Idle == [op |-> "idle"]

\* a store in which an insert has already pushed a blob under a table's base tag
PushedOnly(name) ==
    ddfs_push(EmptyStore, base_tag(name, None, ""),
              <<[owner |-> "old", table |-> name, part |-> None]>>)

-----------------------------------------------------------------------------
(* Table.create, one DDFS call per step *)

\* a create that overwrites whether or not force is given
create_proceeds_always(exists, force) == TRUE

\* whether create goes on to persist the schema after the exists check
create_proceeds(exists, force) == ~exists \/ force

CreateCall(name, schema, force) ==
    [op |-> "create", name |-> name, fields |-> schema.fields,
     partition |-> schema.partition, force |-> force]

\* a client calls Table.create(name, fields, partition, force)
CreateStart(p) ==
    /\ pc[p] \in {"idle", "done"}
    /\ \E name \in Names, schema \in Schemas, force \in BOOLEAN :
          loc' = [loc EXCEPT ![p] = CreateCall(name, schema, force)]
    /\ pc' = [pc EXCEPT ![p] = "exists"]
    /\ ret' = [ret EXCEPT ![p] = None]
    /\ calls' = [calls EXCEPT ![p] = {}]
    /\ snap' = [snap EXCEPT ![p] = store]
    /\ UNCHANGED <<store, jobs, aggVars, tagVars>>

\* if ddfs.exists(cls.base_tag(name)): ... if force ... else: return None
CreateExists(p) ==
    /\ pc[p] = "exists"
    /\ calls' = [calls EXCEPT ![p] = @ \cup {"exists"}]
    /\ IF create_proceeds(ddfs_exists(store, base_tag(loc[p].name, None, "")),
                          loc[p].force)
       THEN /\ pc' = [pc EXCEPT ![p] = "set_fields"]
            /\ ret' = ret
       ELSE /\ pc' = [pc EXCEPT ![p] = "done"]
            /\ ret' = [ret EXCEPT ![p] = None]
    /\ UNCHANGED <<store, loc, snap, jobs, aggVars, tagVars>>

\* ddfs.setattr(cls.base_tag(name), '_fields_', ujson.dumps(fields))
CreateSetFields(p) ==
    /\ pc[p] = "set_fields"
    /\ store' = ddfs_setattr(store, base_tag(loc[p].name, None, ""), "_fields_",
                             dumps_fields(loc[p].fields))
    /\ calls' = [calls EXCEPT ![p] = @ \cup {"setattr"}]
    /\ pc' = [pc EXCEPT ![p] = "set_partition"]
    /\ UNCHANGED <<loc, ret, snap, jobs, aggVars, tagVars>>

\* ddfs.setattr(cls.base_tag(name), '_partition_', ujson.dumps(partition))
\* return cls(name=name, fields=fields, partition=partition)
CreateSetPartition(p) ==
    /\ pc[p] = "set_partition"
    /\ store' = ddfs_setattr(store, base_tag(loc[p].name, None, ""), "_partition_",
                             dumps_partition(loc[p].partition))
    /\ calls' = [calls EXCEPT ![p] = @ \cup {"setattr"}]
    /\ ret' = [ret EXCEPT ![p] =
                  Some(Table(loc[p].name, loc[p].fields, loc[p].partition))]
    /\ pc' = [pc EXCEPT ![p] = "done"]
    /\ UNCHANGED <<loc, snap, jobs, aggVars, tagVars>>

-----------------------------------------------------------------------------
(* Table.from_tag, one DDFS call per step *)

FromTagCall(name) ==
    [op |-> "from_tag", name |-> name, fields |-> <<>>, partition |-> None]

\* partition = ujson.loads(ddfs.getattr(cls.base_tag(name), '_partition_'))
FromTagPartition(p) ==
    /\ pc[p] = "get_partition"
    /\ calls' = [calls EXCEPT ![p] = @ \cup {"getattr"}]
    /\ LET tag == base_tag(loc[p].name, None, "")
       IN  IF ddfs_hasattr(store, tag, "_partition_")
           THEN /\ loc' = [loc EXCEPT ![p].partition =
                             loads_partition(ddfs_getattr(store, tag, "_partition_"))]
                /\ pc' = [pc EXCEPT ![p] = "get_fields"]
           ELSE /\ loc' = loc
                /\ pc' = [pc EXCEPT ![p] = "raised"]
    /\ UNCHANGED <<store, ret, snap, jobs, aggVars, tagVars>>

\* fields = ujson.loads(ddfs.getattr(cls.base_tag(name), '_fields_'))
\* return cls(name=name, fields=fields, partition=partition)
FromTagFields(p) ==
    /\ pc[p] = "get_fields"
    /\ calls' = [calls EXCEPT ![p] = @ \cup {"getattr"}]
    /\ LET tag == base_tag(loc[p].name, None, "")
       IN  IF ddfs_hasattr(store, tag, "_fields_")
           THEN LET fs == loads_fields(ddfs_getattr(store, tag, "_fields_"))
                IN  /\ loc' = [loc EXCEPT ![p].fields = fs]
                    /\ ret' = [ret EXCEPT ![p] =
                                  Some(Table(loc[p].name, fs, loc[p].partition))]
                    /\ pc' = [pc EXCEPT ![p] = "done"]
           ELSE /\ loc' = loc
                /\ ret' = ret
                /\ pc' = [pc EXCEPT ![p] = "raised"]
    /\ UNCHANGED <<store, snap, jobs, aggVars, tagVars>>

-----------------------------------------------------------------------------
(* Values of the variables a specification does not use *)

NoAgg == /\ acc = <<>> /\ vals = <<>> /\ agg = "none" /\ applied = <<>>

NoTagCall == /\ tagIn = <<>> /\ tagOut = None

NoClients ==
    /\ store = EmptyStore
    /\ pc = [p \in Clients |-> "idle"]
    /\ loc = [p \in Clients |-> Idle]
    /\ ret = [p \in Clients |-> None]
    /\ calls = [p \in Clients |-> {}]
    /\ snap = [p \in Clients |-> EmptyStore]
    /\ jobs = {}

-----------------------------------------------------------------------------
(* SpecCreate: one client issuing Table.create calls one after another *)

InitCreate ==
    /\ store \in {EmptyStore} \cup {PushedOnly(n) : n \in Names}
    /\ pc = [p \in Clients |-> "idle"]
    /\ loc = [p \in Clients |-> Idle]
    /\ ret = [p \in Clients |-> None]
    /\ calls = [p \in Clients |-> {}]
    /\ snap = [p \in Clients |-> EmptyStore]
    /\ jobs = {}
    /\ NoAgg /\ NoTagCall

NextCreate ==
    \/ CreateStart("A")
    \/ CreateExists("A")
    \/ CreateSetFields("A")
    \/ CreateSetPartition("A")

SpecCreate == InitCreate /\ [][NextCreate]_vars

CreateDone(p) == loc[p].op = "create" /\ pc[p] = "done"

ExistedAtStart(p) == ddfs_exists(snap[p], base_tag(loc[p].name, None, ""))

\* C1: a finished Table.create on a name whose base tag existed when the call
\* began: with force=False it returned None, made no setattr and left the store
\* (so '_fields_' and '_partition_') as it was; with force=True it returned a
\* Table and '_fields_' and '_partition_' hold the dumps of the new values.
C1_CreateOnExisting ==
    (CreateDone("A") /\ ExistedAtStart("A")) =>
        LET tag == base_tag(loc["A"].name, None, "")
        IN  IF loc["A"].force
            THEN /\ ret["A"] = Some(Table(loc["A"].name, loc["A"].fields,
                                           loc["A"].partition))
                 /\ ddfs_hasattr(store, tag, "_fields_")
                 /\ ddfs_hasattr(store, tag, "_partition_")
                 /\ ddfs_getattr(store, tag, "_fields_") = dumps_fields(loc["A"].fields)
                 /\ ddfs_getattr(store, tag, "_partition_") =
                        dumps_partition(loc["A"].partition)
            ELSE /\ ret["A"] = None
                 /\ "setattr" \notin calls["A"]
                 /\ store = snap["A"]

\* a create without force has just been skipped on a table whose persisted
\* schema differs from the one passed
C1_Witness ==
    /\ CreateDone("A") /\ ExistedAtStart("A") /\ ~loc["A"].force
    /\ LET tag == base_tag(loc["A"].name, None, "")
       IN  /\ ddfs_hasattr(store, tag, "_fields_")
           /\ ddfs_getattr(store, tag, "_fields_") # dumps_fields(loc["A"].fields)

-----------------------------------------------------------------------------
(* SpecRace: clients A and B each run one overwriting Table.create of the   *)
(* same name, their DDFS calls interleaved; client R then runs from_tag.    *)

InitRace ==
    /\ \E name \in Names, sa \in Schemas, sb \in Schemas :
          /\ store \in {EmptyStore, PushedOnly(name)}
          /\ loc = [p \in Clients |->
                      IF p = "A" THEN CreateCall(name, sa, TRUE)
                      ELSE IF p = "B" THEN CreateCall(name, sb, TRUE)
                      ELSE FromTagCall(name)]
    /\ pc = [p \in Clients |-> IF p = "R" THEN "waiting" ELSE "exists"]
    /\ ret = [p \in Clients |-> None]
    /\ calls = [p \in Clients |-> {}]
    /\ snap = [p \in Clients |-> store]
    /\ jobs = {}
    /\ NoAgg /\ NoTagCall

\* from_tag is called once both creates have returned
FromTagStart(p) ==
    /\ pc[p] = "waiting"
    /\ pc["A"] = "done" /\ pc["B"] = "done"
    /\ pc' = [pc EXCEPT ![p] = "get_partition"]
    /\ snap' = [snap EXCEPT ![p] = store]
    /\ UNCHANGED <<store, loc, ret, calls, jobs, aggVars, tagVars>>

NextRace ==
    \/ \E p \in {"A", "B"} : CreateExists(p)
    \/ \E p \in {"A", "B"} : CreateSetFields(p)
    \/ \E p \in {"A", "B"} : CreateSetPartition(p)
    \/ FromTagStart("R")
    \/ FromTagPartition("R")
    \/ FromTagFields("R")

SpecRace == InitRace /\ [][NextRace]_vars

BothCreated == pc["A"] = "done" /\ pc["B"] = "done"

RaceTag == base_tag(loc["A"].name, None, "")

PersistedIs(p) ==
    /\ ddfs_getattr(store, RaceTag, "_fields_") = dumps_fields(loc[p].fields)
    /\ ddfs_getattr(store, RaceTag, "_partition_") = dumps_partition(loc[p].partition)

\* C4 as stated: after two concurrent overwriting creates the persisted
\* (fields, partition) is the complete pair of one of the two calls, and a
\* from_tag that runs afterwards returns a table with that pair.
C4_CompletePair ==
    BothCreated =>
        /\ PersistedIs("A") \/ PersistedIs("B")
        /\ pc["R"] = "done" =>
              \E p \in {"A", "B"} :
                  ret["R"] = Some(Table(loc[p].name, loc[p].fields, loc[p].partition))

\* C4 amended: after two concurrent overwriting creates, '_fields_' is the
\* dumps of the fields of one of the two calls and '_partition_' is the dumps
\* of the partition of one of the two calls (each key is last-write-wins on its
\* own, so the two may come from different calls), and a from_tag that runs
\* afterwards returns the table of exactly the persisted fields and partition.
C4_PerKeyLastWrite ==
    BothCreated =>
        /\ ddfs_getattr(store, RaceTag, "_fields_") \in
              {dumps_fields(loc["A"].fields), dumps_fields(loc["B"].fields)}
        /\ ddfs_getattr(store, RaceTag, "_partition_") \in
              {dumps_partition(loc["A"].partition), dumps_partition(loc["B"].partition)}
        /\ pc["R"] # "raised"
        /\ pc["R"] = "done" =>
              /\ ret["R"] # None
              /\ ret["R"][1].name = loc["A"].name
              /\ ret["R"][1].fields \in {loc["A"].fields, loc["B"].fields}
              /\ ret["R"][1].partition \in {loc["A"].partition, loc["B"].partition}
              /\ dumps_fields(ret["R"][1].fields) =
                    ddfs_getattr(store, RaceTag, "_fields_")
              /\ dumps_partition(ret["R"][1].partition) =
                    ddfs_getattr(store, RaceTag, "_partition_")

\* from_tag has returned a table that mixes the fields of one create with the
\* partition of the other
C4_Witness ==
    /\ BothCreated /\ pc["R"] = "done"
    /\ ret["R"] # None
    /\ ret["R"][1].fields = loc["B"].fields
    /\ ret["R"][1].partition = loc["A"].partition
    /\ loc["A"].fields # loc["B"].fields
    /\ loc["A"].partition # loc["B"].partition

-----------------------------------------------------------------------------
(* insert: table._insert has written the partition files; one push per step *)

\* the key sets of partition_files drawn for an insert call: table._insert keys
\* its files by an absent value, the empty string or a date
FileSets ==
    { {}, {None}, {Some("")}, {Some("p")}, {Some("q")},
      {Some("p"), Some("q")}, {Some(""), Some("p")} }

\* the file insert pushes for one partition of its table
Blob(p, name, part) == [owner |-> p, table |-> name, part |-> part]

InsertCall(name, files) ==
    [op |-> "insert", name |-> name, partition_files |-> files, todo |-> files]

\* tag = part_tag(table._name, part); ddfs.push(tag, [pfile]); os.unlink(pfile)
InsertPush(p) ==
    /\ pc[p] = "push"
    /\ \E part \in loc[p].todo :
          /\ store' = ddfs_push(store, part_tag(loc[p].name, part),
                                <<Blob(p, loc[p].name, part)>>)
          /\ loc' = [loc EXCEPT ![p].todo = @ \ {part}]
    /\ calls' = [calls EXCEPT ![p] = @ \cup {"push"}]
    /\ UNCHANGED <<pc, ret, snap, jobs, aggVars, tagVars>>

\* return table._name, lines
InsertReturn(p) ==
    /\ pc[p] = "push"
    /\ loc[p].todo = {}
    /\ pc' = [pc EXCEPT ![p] = "done"]
    /\ ret' = [ret EXCEPT ![p] = Some(loc[p].name)]
    /\ UNCHANGED <<store, loc, calls, snap, jobs, aggVars, tagVars>>

\* the store after Table.create(name, schema.fields, schema.partition) has run
Created(s, name, schema) ==
    ddfs_setattr(
        ddfs_setattr(s, base_tag(name, None, ""), "_fields_", dumps_fields(schema.fields)),
        base_tag(name, None, ""), "_partition_", dumps_partition(schema.partition))

\* every blob stored under some tag
AllBlobs(s) == UNION {{s[t].blobs[i] : i \in 1..Len(s[t].blobs)} : t \in DOMAIN s}

BlobsAt(s, tag) == {ddfs_blobs(s, tag)[i] : i \in 1..Len(ddfs_blobs(s, tag))}

-----------------------------------------------------------------------------
(* SpecInsert: clients A and B each run one insert, their pushes interleaved *)

InitInsert ==
    /\ store \in {EmptyStore} \cup {PushedOnly(n) : n \in Names}
    /\ \E na \in Names, nb \in Names, fa \in FileSets, fb \in FileSets :
          loc = [p \in Clients |->
                    IF p = "A" THEN InsertCall(na, fa)
                    ELSE IF p = "B" THEN InsertCall(nb, fb)
                    ELSE Idle]
    /\ pc = [p \in Clients |-> IF p = "R" THEN "idle" ELSE "push"]
    /\ ret = [p \in Clients |-> None]
    /\ calls = [p \in Clients |-> {}]
    /\ snap = [p \in Clients |-> store]
    /\ jobs = {}
    /\ NoAgg /\ NoTagCall

NextInsert ==
    \/ \E p \in {"A", "B"} : InsertPush(p)
    \/ \E p \in {"A", "B"} : InsertReturn(p)

SpecInsert == InitInsert /\ [][NextInsert]_vars

Inserters == {p \in Clients : loc[p].op = "insert"}

\* the files client p has pushed so far whose base_tag is the given tag
PushedTo(p, tag) ==
    {Blob(p, loc[p].name, part) :
        part \in {x \in loc[p].partition_files \ loc[p].todo :
                    base_tag(loc[p].name, x, "") = tag}}

SeqIsPrefix(a, b) == Len(a) <= Len(b) /\ SubSeq(b, 1, Len(a)) = a

\* every tag holds what it held when the inserts began plus exactly the files
\* pushed so far for which base_tag names that tag, each of them once
InsertPlacement ==
    \A tag \in DOMAIN store \cup DOMAIN snap["A"] :
        /\ BlobsAt(store, tag) =
              BlobsAt(snap["A"], tag) \cup UNION {PushedTo(p, tag) : p \in Inserters}
        /\ Len(ddfs_blobs(store, tag)) = Cardinality(BlobsAt(store, tag))

\* a step removes no tag and keeps what every tag holds as a prefix of what it
\* holds afterwards
AppendOnly ==
    \A tag \in DOMAIN store :
        /\ tag \in DOMAIN store'
        /\ SeqIsPrefix(store[tag].blobs, store'[tag].blobs)
        /\ store'[tag].attrs = store[tag].attrs

-----------------------------------------------------------------------------
(* _get_blobs: the listing is one step, each ddfs.blobs call is one step *)

\* where.partition(tags): the candidate values the predicate does not exclude;
\* a predicate is given by the set of partition values it keeps
partition(keep, tags) == {v \in tags : v \in keep}

\* the sets of partition values a bound predicate keeps
Keeps == { {"p"}, {"", "p", "q"} }

\* tag[len(basetag):]
StripPrefix(prefix, tag) == SubSeq(tag, Len(prefix) + 1, Len(tag))

\* _get_blobs(table_or_expr, ddfs): where is None for a bare table and
\* Some(keep) for a predicate bound to the table
\* caller is None for a direct call and Some(frame) for a call made by select
GetBlobsFrame(table, where, caller) ==
    [op |-> "get_blobs", table |-> table, where |-> where,
     todo |-> {}, rval |-> <<>>, at_list |-> EmptyStore, caller |-> caller]

GetBlobsCall(table, where) == GetBlobsFrame(table, where, None)

\* job_blobs.update(tuple(sorted(w)) for w in _get_blobs(where, ddfs))
SelectResume(frame, blobs) ==
    [frame EXCEPT !.job_blobs = @ \cup {blobs[i] : i \in 1..Len(blobs)},
                  !.wi = @ + 1]

\* _get_blobs returns value v: to the client, or into the select that called it
GetBlobsGiveBack(p, v) ==
    IF loc[p].caller = None
    THEN /\ ret' = [ret EXCEPT ![p] = Some(v)]
         /\ pc' = [pc EXCEPT ![p] = "done"]
         /\ loc' = loc
    ELSE /\ ret' = ret
         /\ pc' = [pc EXCEPT ![p] = "resolve"]
         /\ loc' = [loc EXCEPT ![p] = SelectResume(loc[p].caller[1], v)]

\* the tags the elif branch selects from the listing under basetag
SelTags(s, table, keep) ==
    LET basetag == base_tag(table.name, None, "") \o ":"
        tags == {StripPrefix(basetag, tag) : tag \in ddfs_list(s, basetag)}
    IN  {base_tag(table.name, Some(part), "") : part \in partition(keep, tags)}

\* if table._blobs: return table._blobs
\* elif where and table._partition: ... ddfs.list(basetag) ...
\* else: tags = ddfs.list(table.base_tag(table._name))
GetBlobsEnter(p) ==
    /\ pc[p] = "enter"
    /\ IF TruthyList(loc[p].table.blobs)
       THEN /\ GetBlobsGiveBack(p, loc[p].table.blobs[1])
            /\ calls' = calls
       ELSE /\ loc' = [loc EXCEPT
                         ![p].todo =
                            IF loc[p].where # None /\ TruthyStr(loc[p].table.partition)
                            THEN SelTags(store, loc[p].table, loc[p].where[1])
                            ELSE ddfs_list(store, base_tag(loc[p].table.name, None, "")),
                         ![p].at_list = store]
            /\ calls' = [calls EXCEPT ![p] = @ \cup {"list"}]
            /\ pc' = [pc EXCEPT ![p] = "read"]
            /\ ret' = ret
    /\ UNCHANGED <<store, snap, jobs, aggVars, tagVars>>

\* a loop body that lists again and reads a tag of the new listing
GetBlobsRead_relist(p) ==
    /\ pc[p] = "read"
    /\ \E tag \in ddfs_list(store, base_tag(loc[p].table.name, None, "")) :
          /\ tag \in loc[p].todo \/ tag \notin DOMAIN loc[p].at_list
          /\ loc' = [loc EXCEPT ![p].rval = @ \o ddfs_blobs(store, tag),
                                ![p].todo = @ \ {tag}]
    /\ calls' = [calls EXCEPT ![p] = @ \cup {"blobs"}]
    /\ UNCHANGED <<store, pc, ret, snap, jobs, aggVars, tagVars>>

\* for tag in tags: rval.extend(ddfs.blobs(tag))
GetBlobsRead(p) ==
    /\ pc[p] = "read"
    /\ \E tag \in loc[p].todo :
          loc' = [loc EXCEPT ![p].rval = @ \o ddfs_blobs(store, tag),
                             ![p].todo = @ \ {tag}]
    /\ calls' = [calls EXCEPT ![p] = @ \cup {"blobs"}]
    /\ UNCHANGED <<store, pc, ret, snap, jobs, aggVars, tagVars>>

\* return rval
GetBlobsReturn(p) ==
    /\ pc[p] = "read"
    /\ loc[p].todo = {}
    /\ GetBlobsGiveBack(p, loc[p].rval)
    /\ UNCHANGED <<store, calls, snap, jobs, aggVars, tagVars>>

-----------------------------------------------------------------------------
(* SpecResolve: clients A and B each run one insert into created tables,    *)
(* client R calls _get_blobs on table "t" at any moment.                    *)

\* R's call begins: the store of that moment is remembered
GetBlobsStart(p) ==
    /\ pc[p] = "waiting"
    /\ pc' = [pc EXCEPT ![p] = "enter"]
    /\ snap' = [snap EXCEPT ![p] = store]
    /\ UNCHANGED <<store, loc, ret, calls, jobs, aggVars, tagVars>>

\* the key sets of partition_files drawn for the inserts that run beside a query
ResolveFileSets == { {}, {Some("")}, {Some("p")}, {Some("p"), Some("q")} }

\* the schemas of the queried table: unpartitioned, and partitioned by date
ResolveSchemas ==
    { [fields |-> <<"+$k", "@4v">>, partition |-> None],
      [fields |-> <<"+$date", "v">>, partition |-> Some("date")] }

InitResolve ==
    /\ \E schema \in ResolveSchemas, nb \in Names,
          fa \in ResolveFileSets, fb \in ResolveFileSets,
          where \in {None} \cup {Some(k) : k \in Keeps} :
          /\ store = Created(Created(EmptyStore, "t", schema), "tt", schema)
          /\ loc = [p \in Clients |->
                      IF p = "A" THEN InsertCall("t", fa)
                      ELSE IF p = "B" THEN InsertCall(nb, fb)
                      ELSE GetBlobsCall(Table("t", schema.fields, schema.partition),
                                        where)]
    /\ pc = [p \in Clients |-> IF p = "R" THEN "waiting" ELSE "push"]
    /\ ret = [p \in Clients |-> None]
    /\ calls = [p \in Clients |-> {}]
    /\ snap = [p \in Clients |-> store]
    /\ jobs = {}
    /\ NoAgg /\ NoTagCall

NextResolve ==
    \/ \E p \in {"A", "B"} : InsertPush(p)
    \/ \E p \in {"A", "B"} : InsertReturn(p)
    \/ GetBlobsStart("R")
    \/ GetBlobsEnter("R")
    \/ GetBlobsRead("R")
    \/ GetBlobsReturn("R")

SpecResolve == InitResolve /\ [][NextResolve]_vars

Returned(p) == {ret[p][1][i] : i \in 1..Len(ret[p][1])}

\* whether the predicate keeps the partition value a blob was written for
KeepsBlob(keep, b) == b.part # None /\ b.part[1] \in keep

\* C2 as stated: for a partitioned table and a bound predicate, _get_blobs
\* returns every blob that insert had pushed for the table before the call
\* began and whose partition value the predicate keeps.
C2_Conservative ==
    (pc["R"] = "done" /\ loc["R"].where # None /\ TruthyStr(loc["R"].table.partition)) =>
        \A b \in AllBlobs(snap["R"]) :
            (b.table = loc["R"].table.name /\ KeepsBlob(loc["R"].where[1], b))
                => b \in Returned("R")

\* C6 as stated: once _get_blobs has made its ddfs.list call, no blob pushed
\* after that listing is part of what it returns.
C6_Snapshot ==
    (pc["R"] = "done" /\ "list" \in calls["R"]) =>
        Returned("R") \subseteq AllBlobs(loc["R"].at_list)

\* the tags of a table: its base tag and the tags of its partitions
OwnTags(s, name) ==
    {tag \in DOMAIN s :
        \/ tag = base_tag(name, None, "")
        \/ IsPrefix(base_tag(name, None, "") \o ":", tag)}

\* C12: table isolation in resolution: for a bare table reference (no
\* predicate, or an unpartitioned table) with no materialized blob set,
\* _get_blobs reads only the table's base tag and its own partition tags, and
\* returns no blob stored under a tag of a different table, including a table
\* whose name starts with this table's name.
C12_TableIsolation ==
    (/\ pc["R"] = "done"
     /\ loc["R"].where = None \/ ~TruthyStr(loc["R"].table.partition)
     /\ ~TruthyList(loc["R"].table.blobs)) =>
        /\ \A tag \in DOMAIN store :
              (BlobsAt(store, tag) \cap Returned("R") # {}) =>
                  tag \in OwnTags(store, loc["R"].table.name)
        /\ \A b \in Returned("R") : b.table = loc["R"].table.name

\* the tags still to read existed when the listing was made, and no returned
\* blob lies under a tag that did not exist then
C6_NoNewTag ==
    /\ pc["R"] = "read" => loc["R"].todo \subseteq DOMAIN loc["R"].at_list
    /\ (pc["R"] = "done" /\ "list" \in calls["R"]) =>
          \A tag \in DOMAIN store :
              (BlobsAt(store, tag) \cap Returned("R") # {}) =>
                  tag \in DOMAIN loc["R"].at_list

\* a step that extends rval extends it by blobs that are, at that step, under
\* the listed tag the step reads
C6_ReadNow ==
    (pc["R"] = "read" /\ pc'["R"] = "read" /\ loc'["R"].rval # loc["R"].rval) =>
        \E tag \in loc["R"].todo \ loc'["R"].todo :
            loc'["R"].rval = loc["R"].rval \o ddfs_blobs(store, tag)

\* C6 amended: once _get_blobs has made its ddfs.list call, a blob pushed
\* after that listing to a tag the listing did not hold is never part of what
\* _get_blobs returns; a blob pushed after the listing to a tag that was listed
\* is part of it when the push comes before the ddfs.blobs call for that tag,
\* and never when it comes after that call.
C6_SnapshotPerTag == [](C6_NoNewTag) /\ [][C6_ReadNow]_vars

\* _get_blobs has returned while an insert, after the listing, pushed one blob
\* to a new tag of the table (not returned) and one to a listed tag (returned)
C6_Witness ==
    /\ pc["R"] = "done" /\ "list" \in calls["R"]
    /\ \E b \in AllBlobs(store) \ AllBlobs(loc["R"].at_list) :
          b.table = "t" /\ b \notin Returned("R")
    /\ \E b \in AllBlobs(store) \ AllBlobs(loc["R"].at_list) :
          b.table = "t" /\ b \in Returned("R")

-----------------------------------------------------------------------------
(* select: validation, blob resolution per predicate, job submission, result *)

\* name[:64]
JobNameLen == 64

\* an entry of the where list: a bare table (keep is None) or a predicate
\* bound to a table (keep is Some(kept partition values))
Where(table, keep) == [table |-> table, keep |-> keep]

RECURSIVE JoinNames(_)
\* '-'.join([where._name for where in wheres])
JoinNames(ws) ==
    IF Len(ws) = 0 THEN ""
    ELSE IF Len(ws) = 1 THEN ws[1].table.name
    ELSE ws[1].table.name \o "-" \o JoinNames(Tail(ws))

\* a name that is not cut to its first n characters
Take_all(str, n) == str

\* s[:n]
Take(str, n) == IF Len(str) <= n THEN str ELSE SubSeq(str, 1, n)

\* 'select_from_%s' % name
JobName(ws) == "select_from_" \o Take(JoinNames(ws), JobNameLen)

TablesOf(ws) == {ws[i].table.name : i \in 1..Len(ws)}

\* check_query raises ValueError: no predicate, more than two tables, a join
\* over fewer than two tables, or an order_by / limit column of no such table
check_query_raises(q) ==
    \/ Len(q.wheres) = 0
    \/ Cardinality(TablesOf(q.wheres)) > 2
    \/ q.join /\ Cardinality(TablesOf(q.wheres)) < 2
    \/ ~q.order_ok

\* job.get_result_schema(project): the table that describes the result
get_result_schema(q) == Table("sub", <<"v">>, None)

\* the blob the job writes its result to
ResultBlob == [owner |-> "job", table |-> "sub", part |-> None]

SelectCall(wheres, join, order_ok, nest, dump) ==
    [op |-> "select", wheres |-> wheres, join |-> join, order_ok |-> order_ok,
     nest |-> nest, dump |-> dump, wi |-> 1, job_blobs |-> {}]

\* a select that goes on whatever check_query says
SelectCheck_unchecked(p) ==
    /\ pc[p] = "check"
    /\ pc' = [pc EXCEPT ![p] = "resolve"]
    /\ UNCHANGED <<store, loc, ret, calls, snap, jobs, aggVars, tagVars>>

\* try: check_query(...) except ValueError: print ...; return None
SelectCheck(p) ==
    /\ pc[p] = "check"
    /\ IF check_query_raises(loc[p])
       THEN /\ ret' = [ret EXCEPT ![p] = None]
            /\ pc' = [pc EXCEPT ![p] = "done"]
       ELSE /\ ret' = ret
            /\ pc' = [pc EXCEPT ![p] = "resolve"]
    /\ UNCHANGED <<store, loc, calls, snap, jobs, aggVars, tagVars>>

\* for where in wheres: ... _get_blobs(where, ddfs): the call is entered
SelectResolve(p) ==
    /\ pc[p] = "resolve"
    /\ loc[p].wi <= Len(loc[p].wheres)
    /\ LET w == loc[p].wheres[loc[p].wi]
       IN  loc' = [loc EXCEPT ![p] = GetBlobsFrame(w.table, w.keep, Some(loc[p]))]
    /\ pc' = [pc EXCEPT ![p] = "enter"]
    /\ UNCHANGED <<store, ret, calls, snap, jobs, aggVars, tagVars>>

\* job = SelectPipe(...); job.run(name='select_from_%s' % name, input=job_blobs)
SelectRun(p) ==
    /\ pc[p] = "resolve"
    /\ loc[p].wi > Len(loc[p].wheres)
    /\ jobs' = jobs \cup {[by |-> p, name |-> JobName(loc[p].wheres),
                            input |-> loc[p].job_blobs]}
    /\ pc' = [pc EXCEPT ![p] = "wait"]
    /\ UNCHANGED <<store, loc, ret, calls, snap, aggVars, tagVars>>

\* blobs = job.wait(); then the nest / autodump / plain return
SelectWait(p) ==
    /\ pc[p] = "wait"
    /\ \E blobs \in {<<>>, <<ResultBlob>>} :
          ret' = [ret EXCEPT ![p] =
                    IF loc[p].nest
                    THEN Some([get_result_schema(loc[p]) EXCEPT !.blobs = Some(blobs)])
                    ELSE IF loc[p].dump THEN None
                    ELSE Some(blobs)]
    /\ pc' = [pc EXCEPT ![p] = "done"]
    /\ UNCHANGED <<store, loc, calls, snap, jobs, aggVars, tagVars>>

\* job.wait() raises: the remote failure reaches the caller
SelectWaitRaises(p) ==
    /\ pc[p] = "wait"
    /\ pc' = [pc EXCEPT ![p] = "raised"]
    /\ UNCHANGED <<store, loc, ret, calls, snap, jobs, aggVars, tagVars>>

-----------------------------------------------------------------------------
(* SpecSelect: client A runs one select over stored tables; client R then   *)
(* chains on the table a nested select returned.                            *)

\* tables t (partitioned by date, two partitions) and tt (unpartitioned)
SelectStore ==
    LET s0 == Created(Created(EmptyStore, "t",
                              [fields |-> <<"+$date", "v">>, partition |-> Some("date")]),
                      "tt", [fields |-> <<"+$k", "@4v">>, partition |-> None])
        s1 == ddfs_push(s0, part_tag("t", Some("p")), <<Blob("old", "t", Some("p"))>>)
        s2 == ddfs_push(s1, part_tag("t", Some("q")), <<Blob("old", "t", Some("q"))>>)
    IN  ddfs_push(s2, part_tag("tt", None), <<Blob("old", "tt", None)>>)

\* the entries a where list is drawn from
WhereItems ==
    { Where(Table("t", <<"+$date", "v">>, Some("date")), None),
      Where(Table("t", <<"+$date", "v">>, Some("date")), Some({"p"})),
      Where(Table("tt", <<"+$k", "@4v">>, None), None),
      Where(Table("u", <<"+$k">>, None), None) }

\* the longest where list drawn
MaxWheres == 3

WhereLists == UNION {[1..n -> WhereItems] : n \in 0..MaxWheres}

InitSelect ==
    /\ store = SelectStore
    /\ \E ws \in WhereLists, join \in BOOLEAN, order_ok \in BOOLEAN,
          nest \in BOOLEAN, dump \in BOOLEAN :
          loc = [p \in Clients |->
                    IF p = "A" THEN SelectCall(ws, join, order_ok, nest, dump)
                    ELSE Idle]
    /\ pc = [p \in Clients |-> IF p = "A" THEN "check" ELSE "idle"]
    /\ ret = [p \in Clients |-> None]
    /\ calls = [p \in Clients |-> {}]
    /\ snap = [p \in Clients |-> store]
    /\ jobs = {}
    /\ NoAgg /\ NoTagCall

\* the table a nested select returned is passed to _get_blobs, bare or
\* through a predicate bound to it
ChainStart(p) ==
    /\ pc[p] = "idle"
    /\ pc["A"] = "done" /\ loc["A"].op = "select" /\ loc["A"].nest
    /\ ret["A"] # None
    /\ \E where \in {None, Some({"p"})} :
          loc' = [loc EXCEPT ![p] = GetBlobsCall(ret["A"][1], where)]
    /\ pc' = [pc EXCEPT ![p] = "enter"]
    /\ snap' = [snap EXCEPT ![p] = store]
    /\ UNCHANGED <<store, ret, calls, jobs, aggVars, tagVars>>

NextSelect ==
    \/ SelectCheck("A")
    \/ SelectResolve("A")
    \/ SelectRun("A")
    \/ SelectWait("A")
    \/ SelectWaitRaises("A")
    \/ ChainStart("R")
    \/ \E p \in {"A", "R"} : GetBlobsEnter(p)
    \/ \E p \in {"A", "R"} : GetBlobsRead(p)
    \/ \E p \in {"A", "R"} : GetBlobsReturn(p)

SpecSelect == InitSelect /\ [][NextSelect]_vars

\* the select call client p is in, also while it is inside _get_blobs
SelectFrame(p) == IF loc[p].op = "select" THEN loc[p] ELSE loc[p].caller[1]

\* C7: when check_query rejects the query, select returns None without
\* raising, having made no tag-store call and submitted no job; any tag-store
\* call or job submission of select means validation has succeeded.
C7_FailSoft ==
    check_query_raises(SelectFrame("A")) =>
        /\ calls["A"] = {}
        /\ jobs = {}
        /\ pc["A"] \in {"check", "done"}
        /\ ret["A"] = None

\* select has returned None on a query over three tables
C7_Witness ==
    /\ pc["A"] = "done" /\ loc["A"].op = "select"
    /\ Cardinality(TablesOf(loc["A"].wheres)) > 2
    /\ ret["A"] = None /\ calls["A"] = {} /\ jobs = {}

\* C8 as stated: when the table passed to _get_blobs carries a materialized
\* blob set, _get_blobs returns that blob set as it is and makes no list or
\* blobs call, also when the blob set is empty.
C8_Chaining ==
    (pc["R"] = "done" /\ loc["R"].table.blobs # None) =>
        /\ ret["R"] = Some(loc["R"].table.blobs[1])
        /\ calls["R"] = {}

-----------------------------------------------------------------------------
(* The built-in aggregations. A Python value is a record: an int carries n, *)
(* a tuple of ints carries items, a float carries items = <<num, den>> in   *)
(* lowest terms, and a raised exception is the value named after it.        *)

PyInt(n) == [t |-> "int", n |-> n, items |-> <<>>]

PyTuple(items) == [t |-> "tuple", n |-> 0, items |-> items]

PyNone == [t |-> "None", n |-> 0, items |-> <<>>]

PyRaised(e) == [t |-> e, n |-> 0, items |-> <<>>]

IsRaised(v) == v.t \in {"TypeError", "ZeroDivisionError"}

\* a + v: int + int adds, tuple + tuple concatenates, anything else raises
PyAdd(a, v) ==
    IF IsRaised(a) THEN a
    ELSE IF IsRaised(v) THEN v
    ELSE IF a.t = "int" /\ v.t = "int" THEN PyInt(a.n + v.n)
    ELSE IF a.t = "tuple" /\ v.t = "tuple" THEN PyTuple(a.items \o v.items)
    ELSE PyRaised("TypeError")

PyTruthy(v) == \/ v.t = "int" /\ v.n # 0
               \/ v.t = "tuple" /\ Len(v.items) > 0

\* v or d
PyOr(v, d) == IF PyTruthy(v) THEN v ELSE d

RECURSIVE Gcd(_, _)
Gcd(a, b) == IF b = 0 THEN a ELSE Gcd(b, a % b)

Abs(x) == IF x < 0 THEN -x ELSE x

\* float(a) / c for c > 0, as a fraction in lowest terms
PyFloatDiv(a, c) ==
    LET g == Gcd(Abs(a), c)
    IN  [t |-> "float", n |-> 0, items |-> <<a \div g, c \div g>>]

\* h_sum: lambda a, v: a + v
h_sum_accumulate(a, v) == PyAdd(a, v)

\* h_sum: default=lambda: 0
h_sum_default == PyInt(0)

\* a count that adds the value it is given
h_count_plain(a, v) == PyAdd(a, v)

\* h_count: lambda a, v: a + (v or 1)
h_count_accumulate(a, v) == PyAdd(a, PyOr(v, PyInt(1)))

\* h_count: default=lambda: 0
h_count_default == PyInt(0)

\* h_avg: lambda (a, c), v: (a + v, c + 1); the first argument is unpacked
\* as a pair, and a + v is the sum of an int and whatever v is
h_avg_accumulate(ac, v) ==
    IF IsRaised(ac) THEN ac
    ELSE IF ac.t # "tuple" \/ Len(ac.items) # 2 THEN PyRaised("TypeError")
    ELSE LET s == PyAdd(PyInt(ac.items[1]), v)
         IN  IF IsRaised(s) THEN s
             ELSE PyTuple(<<s.n, ac.items[2] + 1>>)

\* h_avg: lambda (a, c): float(a) / c
h_avg_finalize(ac) ==
    IF IsRaised(ac) THEN ac
    ELSE IF ac.t # "tuple" \/ Len(ac.items) # 2 THEN PyRaised("TypeError")
    ELSE IF ac.items[2] = 0 THEN PyRaised("ZeroDivisionError")
    ELSE PyFloatDiv(ac.items[1], ac.items[2])

\* h_avg: default=lambda: (0, 0)
h_avg_default == PyTuple(<<0, 0>>)

accumulate(kind, a, v) ==
    IF kind = "sum" THEN h_sum_accumulate(a, v)
    ELSE IF kind = "avg" THEN h_avg_accumulate(a, v)
    ELSE h_count_accumulate(a, v)

default(kind) ==
    IF kind = "sum" THEN h_sum_default
    ELSE IF kind = "avg" THEN h_avg_default
    ELSE h_count_default

\* Aggregation's finalize: the identity unless one is given
finalize(kind, a) == IF kind = "avg" THEN h_avg_finalize(a) ELSE a

-----------------------------------------------------------------------------
(* SpecAgg: workers fold the raw values of one group key in any order and   *)
(* merge each other's accumulators with accumulate, in any tree shape.      *)

Workers == {"w1", "w2", "w3"}

NewWorker == [st |-> "new", a |-> PyNone]

\* the accumulator a worker folds into: default() when it has none yet
Current(kind, w) == IF acc[w].st = "new" THEN default(kind) ELSE acc[w].a

RemoveAt(seq, i) == SubSeq(seq, 1, i - 1) \o SubSeq(seq, i + 1, Len(seq))

InitAgg ==
    /\ \/ agg = "sum" /\ vals = <<3, -1, 4, 1, 5>>
       \/ agg = "avg" /\ vals = <<2, 4, 6>>
    /\ acc = [w \in Workers |-> NewWorker]
    /\ applied = <<>>
    /\ NoClients /\ NoTagCall

\* a worker folds one raw value: accumulate(acc, value)
AggFold(w) ==
    /\ acc[w].st \in {"new", "live"}
    /\ \E i \in 1..Len(vals) :
          /\ acc' = [acc EXCEPT ![w] =
                        [st |-> "live",
                         a |-> accumulate(agg, Current(agg, w), PyInt(vals[i]))]]
          /\ vals' = RemoveAt(vals, i)
    /\ UNCHANGED <<agg, applied, storeVars, tagVars>>

\* a worker merges the accumulator another worker produced: accumulate(acc, other)
AggMerge(w, u) ==
    /\ w # u
    /\ acc[w].st \in {"new", "live"}
    /\ acc[u].st = "live"
    /\ acc' = [acc EXCEPT ![w] = [st |-> "live",
                                  a |-> accumulate(agg, Current(agg, w), acc[u].a)],
                          ![u] = [st |-> "sent", a |-> acc[u].a]]
    /\ UNCHANGED <<vals, agg, applied, storeVars, tagVars>>

NextAgg ==
    \/ \E w \in Workers : AggFold(w)
    \/ \E w \in Workers, u \in Workers : AggMerge(w, u)

SpecAgg == InitAgg /\ [][NextAgg]_vars

Live == {w \in Workers : acc[w].st = "live"}

\* every value is folded and every partial accumulator is merged into one
AggComplete == vals = <<>> /\ Cardinality(Live) = 1

\* C3: whatever the grouping and order of the folds and merges, the one
\* accumulator left is 12 for sum over [3, -1, 4, 1, 5], and (12, 3) with
\* finalize 4.0 for avg over [2, 4, 6].
C3_MergeOrderIndependent ==
    AggComplete =>
        \A w \in Live :
            /\ agg = "sum" => acc[w].a = PyInt(12)
            /\ agg = "avg" =>
                  /\ acc[w].a = PyTuple(<<12, 3>>)
                  /\ finalize(agg, acc[w].a) = [t |-> "float", n |-> 0, items |-> <<4, 1>>]

-----------------------------------------------------------------------------
(* SpecCount: the count aggregation is given one value after another *)

\* the values accumulate is given: an absent value and small numbers
CountValues == {PyNone, PyInt(0), PyInt(1), PyInt(2)}

\* the longest sequence of values given
MaxApply == 4

InitCount ==
    /\ agg = "count"
    /\ vals = <<>>
    /\ acc = [w \in {"w1"} |-> [st |-> "live", a |-> default("count")]]
    /\ applied = <<>>
    /\ NoClients /\ NoTagCall

CountAccumulate(w) ==
    /\ Len(applied) < MaxApply
    /\ \E v \in CountValues :
          /\ acc' = [acc EXCEPT ![w].a = accumulate(agg, acc[w].a, v)]
          /\ applied' = Append(applied, v)
    /\ UNCHANGED <<vals, agg, storeVars, tagVars>>

NextCount == CountAccumulate("w1")

SpecCount == InitCount /\ [][NextCount]_vars

\* C10 as stated: after accumulate has been applied n times the accumulator
\* is n, whatever the values.
C10_CountsOccurrences == acc["w1"].a = PyInt(Len(applied))

RECURSIVE CountedSum(_)
\* one for each absent or zero value, the value itself for any other
CountedSum(vs) ==
    IF Len(vs) = 0 THEN 0
    ELSE (IF vs[1].t = "None" \/ vs[1].n = 0 THEN 1 ELSE vs[1].n) + CountedSum(Tail(vs))

\* C10 amended: count's accumulate adds 1 for an absent (None) or zero value
\* and adds the value itself otherwise; starting from default() = 0, after n
\* applications the accumulator is n when every value given was None, 0 or 1.
C10_CountsAbsentAsOne ==
    /\ acc["w1"].a = PyInt(CountedSum(applied))
    /\ (\A i \in 1..Len(applied) : applied[i] \in {PyNone, PyInt(0), PyInt(1)})
          => acc["w1"].a = PyInt(Len(applied))

\* accumulate has been given None, 0 and 1 and the count is 3
C10_Witness ==
    /\ Len(applied) = 3
    /\ {applied[i] : i \in 1..3} = {PyNone, PyInt(0), PyInt(1)}
    /\ acc["w1"].a = PyInt(3)

-----------------------------------------------------------------------------
(* SpecTag: Table.base_tag is called on drawn arguments *)

TagNames == {"t", "tt", "u", "employees", "a-b"}

TagPartitions == {None, Some(""), Some("p"), Some("2014-02-21")}

TagExtensions == {"", "x", "idx"}

InitTag ==
    /\ tagIn \in [name : TagNames, partition : TagPartitions, extension : TagExtensions]
    /\ tagOut = None
    /\ NoClients /\ NoAgg

BaseTagCall ==
    /\ tagOut = None
    /\ tagOut' = Some(base_tag(tagIn.name, tagIn.partition, tagIn.extension))
    /\ UNCHANGED <<tagIn, storeVars, aggVars>>

NextTag == BaseTagCall

SpecTag == InitTag /\ [][NextTag]_vars

\* C9: base_tag(name) and base_tag(name, partition=None) are 'hustle:' + name;
\* for a non-empty partition p the key is base_tag(name) + ':' + p; with an
\* extension it is 'hustle:' + name + ':' + extension, followed by ':' + p
\* when p is given.
C9_BaseTagFormat ==
    tagOut # None =>
        LET n == tagIn.name
            e == tagIn.extension
            p == tagIn.partition
            given == p # None /\ p[1] # ""
        IN  /\ (e = "" /\ p = None) => tagOut[1] = "hustle:" \o n
            /\ (e = "" /\ given) => tagOut[1] = ("hustle:" \o n) \o ":" \o p[1]
            /\ (e # "" /\ p = None) => tagOut[1] = "hustle:" \o n \o ":" \o e
            /\ (e # "" /\ given) =>
                  tagOut[1] = "hustle:" \o n \o ":" \o e \o ":" \o p[1]

\* base_tag has returned the key of a partition under an extension
C9_Witness ==
    /\ tagOut = Some("hustle:employees:idx:2014-02-21")
    /\ tagIn.extension = "idx" /\ tagIn.partition = Some("2014-02-21")

-----------------------------------------------------------------------------
(* SpecJobName: client A runs one select, client B then runs a select on    *)
(* the same where entries, in the same or in the reverse order.             *)

LongName == "impressions_by_site_and_user_agent_2014"

LongerName == "clicks_by_campaign_and_landing_page_2014_q1"

\* the entries the two where lists are drawn from
JobWhereItems ==
    { Where(Table("t", <<"+$date", "v">>, Some("date")), Some({"p"})),
      Where(Table("tt", <<"+$k", "@4v">>, None), None),
      Where(Table(LongName, <<"+$k">>, None), None),
      Where(Table(LongerName, <<"+$k">>, None), None) }

JobWhereLists == [1..1 -> JobWhereItems] \cup [1..2 -> JobWhereItems]

\* the entries of a where list in the opposite order
Reversed(ws) == [i \in 1..Len(ws) |-> ws[Len(ws) + 1 - i]]

InitJobName ==
    /\ store = SelectStore
    /\ \E ws \in JobWhereLists, wb \in JobWhereLists, dump \in BOOLEAN :
          /\ wb \in {ws, Reversed(ws)}
          /\ loc = [p \in Clients |->
                      IF p = "A" THEN SelectCall(ws, FALSE, TRUE, FALSE, dump)
                      ELSE IF p = "B" THEN SelectCall(wb, FALSE, TRUE, FALSE, dump)
                      ELSE Idle]
    /\ pc = [p \in Clients |->
                IF p = "A" THEN "check" ELSE IF p = "B" THEN "waiting" ELSE "idle"]
    /\ ret = [p \in Clients |-> None]
    /\ calls = [p \in Clients |-> {}]
    /\ snap = [p \in Clients |-> store]
    /\ jobs = {}
    /\ NoAgg /\ NoTagCall

\* the second select is called once the first has returned or raised
SecondSelectStart(p) ==
    /\ pc[p] = "waiting"
    /\ pc["A"] \in {"done", "raised"}
    /\ pc' = [pc EXCEPT ![p] = "check"]
    /\ snap' = [snap EXCEPT ![p] = store]
    /\ UNCHANGED <<store, loc, ret, calls, jobs, aggVars, tagVars>>

NextJobName ==
    \/ SecondSelectStart("B")
    \/ \E p \in {"A", "B"} : SelectCheck(p)
    \/ \E p \in {"A", "B"} : SelectResolve(p)
    \/ \E p \in {"A", "B"} : GetBlobsEnter(p)
    \/ \E p \in {"A", "B"} : GetBlobsRead(p)
    \/ \E p \in {"A", "B"} : GetBlobsReturn(p)
    \/ \E p \in {"A", "B"} : SelectRun(p)
    \/ \E p \in {"A", "B"} : SelectWait(p)
    \/ \E p \in {"A", "B"} : SelectWaitRaises(p)

SpecJobName == InitJobName /\ [][NextJobName]_vars

JobsBy(p) == {j \in jobs : j.by = p}

BothSubmitted == JobsBy("A") # {} /\ JobsBy("B") # {}

\* C11 as stated: two select calls with the same predicates, supplied in the
\* same or in a different order, submit the same job name.
C11_OrderIndependent ==
    BothSubmitted =>
        \A ja \in JobsBy("A"), jb \in JobsBy("B") : ja.name = jb.name

\* C11 amended: the job name that select submits is 'select_from_' followed
\* by the first 64 characters of the predicates' table names joined by '-' in
\* the order the predicates are given (they are not sorted): it begins with
\* the first predicate's table name (cut to 64 characters), it ends with the
\* last predicate's table name when the joined names fit in 64 characters,
\* and two select calls with the same predicates in the same order submit
\* the same job name.
C11_GivenOrderBounded ==
    \A j \in jobs :
        LET ws == SelectFrame(j.by).wheres
            first == ws[1].table.name
            last == ws[Len(ws)].table.name
            head == "select_from_" \o
                      (IF Len(first) <= 64 THEN first ELSE SubSeq(first, 1, 64))
            fits == Len(ws) = 1 \/ Len(first) + 1 + Len(last) <= 64
        IN  /\ Len(j.name) <= Len("select_from_") + 64
            /\ Len(head) <= Len(j.name) /\ SubSeq(j.name, 1, Len(head)) = head
            /\ fits => SubSeq(j.name, Len(j.name) - Len(last) + 1, Len(j.name)) = last
            /\ fits => Len(j.name) = Len("select_from_") +
                          (IF Len(ws) = 1 THEN Len(first) ELSE Len(first) + 1 + Len(last))
            /\ \A k \in jobs :
                  SelectFrame(k.by).wheres = ws => k.name = j.name

\* both selects have submitted their job, the second with the two predicates
\* in the opposite order, and the first job's name was cut to 64 characters
C11_Witness ==
    /\ BothSubmitted
    /\ Len(SelectFrame("A").wheres) = 2
    /\ SelectFrame("B").wheres = Reversed(SelectFrame("A").wheres)
    /\ SelectFrame("B").wheres # SelectFrame("A").wheres
    /\ \E j \in JobsBy("A") : Len(j.name) = Len("select_from_") + 64

====
